---- MODULE Spec2Model ----
(***************************************************************************)
(* Model of log-visualizer/src/JsonLogViewer.jsx: the extraction of JSON   *)
(* log records from a text file, the severity-level resolver, the level    *)
(* catalog and the search / level filter, together with the component      *)
(* state they update (logs, filteredLogs, searchTerm, selectedLevel,       *)
(* availableLevels, stats).                                                *)
(*                                                                         *)
(* Text is a sequence of one-character strings.  A JSON value is a tuple   *)
(* <<tag, text, number, boolean, members>> with tag in {"str", "num",      *)
(* "bool", "null", "obj", "undefined"}; members is the ordered list of     *)
(* <<key, value>> pairs of an object.                                      *)
(***************************************************************************)
EXTENDS Integers, Sequences, FiniteSets

VARIABLES logs, filteredLogs, searchTerm, selectedLevel, availableLevels,
          stats, content, lastEvent

vars == <<logs, filteredLogs, searchTerm, selectedLevel, availableLevels,
          stats, content, lastEvent>>

(***************************************************************************)
(* Characters and the String methods the component uses.                   *)
(***************************************************************************)

\* The characters of the model in ascending UTF-16 code-unit order.
CodeOrder ==
  << "\r", " ", "\"", ",",
     "0", "1", "2", "3", "4", "5", "6", "7", "8", "9", ":",
     "A", "B", "C", "D", "E", "F", "G", "H", "I", "J", "K", "L", "M",
     "N", "O", "P", "Q", "R", "S", "T", "U", "V", "W", "X", "Y", "Z",
     "[", "]", "_",
     "a", "b", "c", "d", "e", "f", "g", "h", "i", "j", "k", "l", "m",
     "n", "o", "p", "q", "r", "s", "t", "u", "v", "w", "x", "y", "z",
     "{", "}" >>

CodeMap ==
  [c \in { CodeOrder[i] : i \in 1..Len(CodeOrder) } |->
     CHOOSE i \in 1..Len(CodeOrder) : CodeOrder[i] = c]

CharCode(c) == CodeMap[c]

LowerLetters ==
  << "a", "b", "c", "d", "e", "f", "g", "h", "i", "j", "k", "l", "m",
     "n", "o", "p", "q", "r", "s", "t", "u", "v", "w", "x", "y", "z" >>

UpperLetters ==
  << "A", "B", "C", "D", "E", "F", "G", "H", "I", "J", "K", "L", "M",
     "N", "O", "P", "Q", "R", "S", "T", "U", "V", "W", "X", "Y", "Z" >>

Digits == << "0", "1", "2", "3", "4", "5", "6", "7", "8", "9" >>

Range(f) == { f[i] : i \in DOMAIN f }

DigitChars == Range(Digits)

Min(S) == CHOOSE x \in S : \A y \in S : x <= y

Chars == Range(CodeOrder)

\* The upper-case and lower-case form of every character.
UpperMap ==
  [c \in Chars |->
     IF c \in Range(LowerLetters)
       THEN UpperLetters[CHOOSE i \in 1..26 : LowerLetters[i] = c]
       ELSE c]

LowerMap ==
  [c \in Chars |->
     IF c \in Range(UpperLetters)
       THEN LowerLetters[CHOOSE i \in 1..26 : UpperLetters[i] = c]
       ELSE c]

UpperChar(c) == UpperMap[c]

LowerChar(c) == LowerMap[c]

\* Index of the first character of s at or after i that is not in set;
\* Len(s) + 1 when there is none.
RECURSIVE FirstNotIn(_, _, _)
FirstNotIn(s, i, set) ==
  IF i > Len(s) THEN Len(s) + 1
  ELSE IF s[i] \notin set THEN i
  ELSE FirstNotIn(s, i + 1, set)

\* Index of the last character of s at or before i that is not in set; 0
\* when there is none.
RECURSIVE LastNotIn(_, _, _)
LastNotIn(s, i, set) ==
  IF i < 1 THEN 0
  ELSE IF s[i] \notin set THEN i
  ELSE LastNotIn(s, i - 1, set)

\* Index of the first occurrence of character c in s at or after i; 0 when
\* there is none.
RECURSIVE IndexOf(_, _, _)
IndexOf(s, c, i) ==
  IF i > Len(s) THEN 0
  ELSE IF s[i] = c THEN i
  ELSE IndexOf(s, c, i + 1)

\* String.prototype.toUpperCase
ToUpperCase(s) == [i \in 1..Len(s) |-> UpperChar(s[i])]

\* String.prototype.toLowerCase
ToLowerCase(s) == [i \in 1..Len(s) |-> LowerChar(s[i])]

\* String.prototype.includes
Includes(hay, needle) ==
  \E i \in 0..(Len(hay) - Len(needle)) :
     SubSeq(hay, i + 1, i + Len(needle)) = needle

\* String.prototype.startsWith / endsWith, for a one-character argument
StartsWith(s, c) == Len(s) >= 1 /\ s[1] = c

EndsWith(s, c) == Len(s) >= 1 /\ s[Len(s)] = c

\* The white space String.prototype.trim removes (within one line).
TrimSpace == { " ", "\r" }

\* String.prototype.trim
Trim(s) == SubSeq(s, FirstNotIn(s, 1, TrimSpace), LastNotIn(s, Len(s), TrimSpace))

\* String.prototype.split('\n'): the text between consecutive line feeds;
\* the empty text splits into one empty line.
RECURSIVE Split(_)
Split(s) ==
  LET nl == IndexOf(s, "\n", 1)
  IN  IF nl = 0 THEN << s >>
      ELSE << SubSeq(s, 1, nl - 1) >> \o Split(SubSeq(s, nl + 1, Len(s)))

\* Lexicographic comparison by code unit, the order of Array.prototype.sort
\* without a comparator.
RECURSIVE StrLess(_, _)
StrLess(a, b) ==
  IF b = << >> THEN FALSE
  ELSE IF a = << >> THEN TRUE
  ELSE IF CharCode(a[1]) # CharCode(b[1]) THEN CharCode(a[1]) < CharCode(b[1])
  ELSE StrLess(Tail(a), Tail(b))

\* Number.prototype.toString for a non-negative integer
RECURSIVE NumToString(_)
NumToString(n) ==
  IF n < 10 THEN << Digits[n + 1] >>
  ELSE NumToString(n \div 10) \o << Digits[(n % 10) + 1] >>

(***************************************************************************)
(* JSON values.                                                            *)
(***************************************************************************)

Str(s)  == << "str", s, 0, FALSE, << >> >>

Num(n)  == << "num", << >>, n, FALSE, << >> >>

Bool(b) == << "bool", << >>, 0, b, << >> >>

Null    == << "null", << >>, 0, FALSE, << >> >>

Obj(m)  == << "obj", << >>, 0, FALSE, m >>

\* The value of a property the object does not have.
Undefined == << "undefined", << >>, 0, FALSE, << >> >>

TagOf(v) == v[1]

TextOf(v) == v[2]

NumberOf(v) == v[3]

BoolOf(v) == v[4]

MembersOf(v) == v[5]

\* A member of an object: its key and its value.
Member(key, val) == << key, val >>

KeyOf(mem) == mem[1]

ValueOf(mem) == mem[2]

\* Property read log[key].
Get(obj, key) ==
  LET idx == { i \in 1..Len(MembersOf(obj)) : KeyOf(MembersOf(obj)[i]) = key }
  IN  IF idx = {} THEN Undefined ELSE ValueOf(MembersOf(obj)[Min(idx)])

\* Property write while parsing: a repeated key keeps its position and takes
\* the later value.
Put(m, key, val) ==
  LET idx == { i \in 1..Len(m) : KeyOf(m[i]) = key }
  IN  IF idx = {} THEN Append(m, Member(key, val))
      ELSE [m EXCEPT ![Min(idx)] = Member(key, val)]

\* JavaScript truthiness, as tested by || and ?: .
Truthy(v) ==
  CASE TagOf(v) = "str"  -> TextOf(v) # << >>
    [] TagOf(v) = "num"  -> NumberOf(v) # 0
    [] TagOf(v) = "bool" -> BoolOf(v)
    [] TagOf(v) = "obj"  -> TRUE
    [] OTHER        -> FALSE

\* a || b
Or(a, b) == IF Truthy(a) THEN a ELSE b

sTrue == << "t", "r", "u", "e" >>

sFalse == << "f", "a", "l", "s", "e" >>

sNull == << "n", "u", "l", "l" >>

sObjectObject ==
  << "[", "o", "b", "j", "e", "c", "t", " ", "O", "b", "j", "e", "c", "t", "]" >>

\* value.toString() of a truthy value
toString(v) ==
  CASE TagOf(v) = "str"  -> TextOf(v)
    [] TagOf(v) = "num"  -> NumToString(NumberOf(v))
    [] TagOf(v) = "bool" -> IF BoolOf(v) THEN sTrue ELSE sFalse
    [] OTHER        -> sObjectObject

(***************************************************************************)
(* JSON.parse and JSON.stringify on the texts of the model: objects with   *)
(* string keys, strings without escapes, non-negative integers, true,      *)
(* false, null and nested objects.                                         *)
(***************************************************************************)

JsonSpace == { " ", "\r", "\n" }

\* The result of a parsing step: whether it succeeded, the index after the
\* text it read and the value it read.
ParseFail == << FALSE, 0, Undefined >>

ParseOk(v, p) == << TRUE, p, v >>

Ok(r) == r[1]

Pos(r) == r[2]

Val(r) == r[3]

\* Index of the first character at or after i that is not white space.
SkipWs(s, i) == FirstNotIn(s, i, JsonSpace)

\* s[i] is the opening quote.
ParseString(s, i) ==
  LET close == IndexOf(s, "\"", i + 1)
  IN  IF close = 0 THEN ParseFail
      ELSE ParseOk(Str(SubSeq(s, i + 1, close - 1)), close + 1)

RECURSIVE DigitsValue(_)
DigitsValue(ds) ==
  IF ds = << >> THEN 0
  ELSE 10 * DigitsValue(SubSeq(ds, 1, Len(ds) - 1))
         + (CHOOSE d \in 0..9 : Digits[d + 1] = ds[Len(ds)])

\* s[i] is a digit: 0, or a digit 1-9 followed by digits.
ParseNumber(s, i) ==
  LET last == IF s[i] = "0" THEN i ELSE FirstNotIn(s, i, DigitChars) - 1
  IN  ParseOk(Num(DigitsValue(SubSeq(s, i, last))), last + 1)

ParseLiteral(s, i, word, v) ==
  IF SubSeq(s, i, i + Len(word) - 1) = word /\ i + Len(word) - 1 <= Len(s)
    THEN ParseOk(v, i + Len(word))
    ELSE ParseFail

RECURSIVE ParseValue(_, _), ParseMembers(_, _, _)

\* i is the index of the first character of the value.
ParseValue(s, i) ==
  IF i > Len(s) THEN ParseFail
  ELSE CASE s[i] = "{" ->
              LET j == SkipWs(s, i + 1)
              IN  IF j <= Len(s) /\ s[j] = "}" THEN ParseOk(Obj(<< >>), j + 1)
                  ELSE ParseMembers(s, j, << >>)
         [] s[i] = "\"" -> ParseString(s, i)
         [] s[i] \in DigitChars -> ParseNumber(s, i)
         [] s[i] = "t" -> ParseLiteral(s, i, sTrue, Bool(TRUE))
         [] s[i] = "f" -> ParseLiteral(s, i, sFalse, Bool(FALSE))
         [] s[i] = "n" -> ParseLiteral(s, i, sNull, Null)
         [] OTHER -> ParseFail

\* i is the index where the next member's key must start; acc holds the
\* members read so far.
ParseMembers(s, i, acc) ==
  IF i > Len(s) \/ s[i] # "\"" THEN ParseFail
  ELSE
    LET key == ParseString(s, i)
    IN  IF ~Ok(key) THEN ParseFail
        ELSE
          LET c == SkipWs(s, Pos(key))
          IN  IF c > Len(s) \/ s[c] # ":" THEN ParseFail
              ELSE
                LET val == ParseValue(s, SkipWs(s, c + 1))
                IN  IF ~Ok(val) THEN ParseFail
                    ELSE
                      LET acc2 == Put(acc, TextOf(Val(key)), Val(val))
                          d    == SkipWs(s, Pos(val))
                      IN  IF d > Len(s) THEN ParseFail
                          ELSE IF s[d] = "}" THEN ParseOk(Obj(acc2), d + 1)
                          ELSE IF s[d] = ","
                            THEN ParseMembers(s, SkipWs(s, d + 1), acc2)
                          ELSE ParseFail

\* JSON.parse(text): ok is FALSE where JSON.parse throws.
JSONParse(s) ==
  LET r == ParseValue(s, SkipWs(s, 1))
  IN  IF Ok(r) /\ SkipWs(s, Pos(r)) = Len(s) + 1 THEN r ELSE ParseFail

\* JSON.stringify(value), no indentation.
RECURSIVE JSONStringify(_), StringifyMembers(_)
JSONStringify(v) ==
  CASE TagOf(v) = "str"  -> << "\"" >> \o TextOf(v) \o << "\"" >>
    [] TagOf(v) = "num"  -> NumToString(NumberOf(v))
    [] TagOf(v) = "bool" -> IF BoolOf(v) THEN sTrue ELSE sFalse
    [] TagOf(v) = "obj"  -> << "{" >> \o StringifyMembers(MembersOf(v)) \o << "}" >>
    [] OTHER        -> sNull

StringifyMembers(m) ==
  IF m = << >> THEN << >>
  ELSE LET one == << "\"" >> \o KeyOf(m[1]) \o << "\"", ":" >> \o JSONStringify(ValueOf(m[1]))
       IN  IF Len(m) = 1 THEN one
           ELSE one \o << "," >> \o StringifyMembers(Tail(m))

(***************************************************************************)
(* The component: JsonLogViewer.jsx.                                       *)
(***************************************************************************)

sALL == << "A", "L", "L" >>

sUNKNOWN == << "U", "N", "K", "N", "O", "W", "N" >>

sDEBUG == << "D", "E", "B", "U", "G" >>

sINFO == << "I", "N", "F", "O" >>

sWARN == << "W", "A", "R", "N" >>

sERROR == << "E", "R", "R", "O", "R" >>

sFATAL == << "F", "A", "T", "A", "L" >>

kLevel == << "l", "e", "v", "e", "l" >>

kSeverity == << "s", "e", "v", "e", "r", "i", "t", "y" >>

kLog_level == << "l", "o", "g", "_", "l", "e", "v", "e", "l" >>

kLogLevel == << "l", "o", "g", "L", "e", "v", "e", "l" >>

\* Hierarchical log level order (lowest to highest severity)
levelHierarchy == << sDEBUG, sINFO, sWARN, sERROR, sFATAL >>

\* One iteration of the loop of extractJsonObjects over the lines.
\* extractLine without the test trimmedLine.length > 0.
extractLine_blankCounted(acc, line) ==
  LET trimmedLine == Trim(line)
  IN  IF StartsWith(trimmedLine, "{") /\ EndsWith(trimmedLine, "}")
        THEN LET parsed == JSONParse(trimmedLine)
             IN  IF Ok(parsed)
                   THEN [acc EXCEPT !.jsonObjects = Append(@, Val(parsed))]
                   ELSE [acc EXCEPT !.ignoredLines = @ + 1]
        ELSE [acc EXCEPT !.ignoredLines = @ + 1]

\* extractLine without the else branch.
extractLine_onlyCandidatesCounted(acc, line) ==
  LET trimmedLine == Trim(line)
  IN  IF StartsWith(trimmedLine, "{") /\ EndsWith(trimmedLine, "}")
        THEN LET parsed == JSONParse(trimmedLine)
             IN  IF Ok(parsed)
                   THEN [acc EXCEPT !.jsonObjects = Append(@, Val(parsed))]
                   ELSE [acc EXCEPT !.ignoredLines = @ + 1]
        ELSE acc

extractLine(acc, line) ==
  LET trimmedLine == Trim(line)
  IN  IF StartsWith(trimmedLine, "{") /\ EndsWith(trimmedLine, "}")
        THEN LET parsed == JSONParse(trimmedLine)
             IN  IF Ok(parsed)
                   THEN [acc EXCEPT !.jsonObjects = Append(@, Val(parsed))]
                   ELSE [acc EXCEPT !.ignoredLines = @ + 1]
        ELSE IF Len(trimmedLine) > 0
          THEN [acc EXCEPT !.ignoredLines = @ + 1]
          ELSE acc

RECURSIVE extractLoop(_, _)
extractLoop(lines, acc) ==
  IF lines = << >> THEN acc
  ELSE extractLoop(Tail(lines), extractLine(acc, Head(lines)))

extractJsonObjects(text) ==
  extractLoop(Split(text), [ignoredLines |-> 0, jsonObjects |-> << >>])

getLogLevel(log) ==
  LET level == Or(Or(Or(Get(log, kLevel), Get(log, kSeverity)),
                     Get(log, kLog_level)), Get(log, kLogLevel))
  IN  IF Truthy(level) THEN ToUpperCase(toString(level)) ELSE sUNKNOWN

\* Array.from(levels).sort()
RECURSIVE SortLabels(_)
SortLabels(S) ==
  IF S = {} THEN << >>
  ELSE LET least == CHOOSE x \in S : \A y \in S \ {x} : StrLess(x, y)
       IN  << least >> \o SortLabels(S \ {least})

extractLevels(records) ==
  LET level(log) == Or(Or(Or(Get(log, kLevel), Get(log, kSeverity)),
                          Get(log, kLog_level)), Get(log, kLogLevel))
      levels == { ToUpperCase(toString(level(records[i]))) :
                    i \in { j \in 1..Len(records) : Truthy(level(records[j])) } }
  IN  << sALL >> \o SortLabels(levels)

\* filterLogs with slice(selectedIndex + 1): the floor itself is dropped.
filterLogs_aboveFloor(term, level) ==
  LET selectedIndex == { i \in 1..Len(levelHierarchy) : levelHierarchy[i] = level }
      byLevel ==
        IF level # sALL
          THEN IF selectedIndex # {}
                 THEN LET allowedLevels ==
                            SubSeq(levelHierarchy, Min(selectedIndex) + 1,
                                   Len(levelHierarchy))
                          Allowed(log) == getLogLevel(log) \in Range(allowedLevels)
                      IN  SelectSeq(logs, Allowed)
                 ELSE LET Same(log) == getLogLevel(log) = level
                      IN  SelectSeq(logs, Same)
          ELSE logs
      Matches(log) ==
        Includes(ToLowerCase(JSONStringify(log)), ToLowerCase(term))
  IN  IF term # << >> THEN SelectSeq(byLevel, Matches) ELSE byLevel

\* filterLogs without the test of indexOf against -1: a level outside the
\* hierarchy is filtered by slice(-1).
filterLogs_sliceMinusOne(term, level) ==
  LET selectedIndex == { i \in 1..Len(levelHierarchy) : levelHierarchy[i] = level }
      byLevel ==
        IF level # sALL
          THEN IF selectedIndex # {}
                 THEN LET allowedLevels ==
                            SubSeq(levelHierarchy, Min(selectedIndex),
                                   Len(levelHierarchy))
                          Allowed(log) == getLogLevel(log) \in Range(allowedLevels)
                      IN  SelectSeq(logs, Allowed)
                 ELSE LET allowedLevels ==
                            SubSeq(levelHierarchy, Len(levelHierarchy),
                                   Len(levelHierarchy))
                          Allowed(log) == getLogLevel(log) \in Range(allowedLevels)
                      IN  SelectSeq(logs, Allowed)
          ELSE logs
      Matches(log) ==
        Includes(ToLowerCase(JSONStringify(log)), ToLowerCase(term))
  IN  IF term # << >> THEN SelectSeq(byLevel, Matches) ELSE byLevel

\* filterLogs without term.toLowerCase().
filterLogs_termCase(term, level) ==
  LET selectedIndex == { i \in 1..Len(levelHierarchy) : levelHierarchy[i] = level }
      byLevel ==
        IF level # sALL
          THEN IF selectedIndex # {}
                 THEN LET allowedLevels ==
                            SubSeq(levelHierarchy, Min(selectedIndex),
                                   Len(levelHierarchy))
                          Allowed(log) == getLogLevel(log) \in Range(allowedLevels)
                      IN  SelectSeq(logs, Allowed)
                 ELSE LET Same(log) == getLogLevel(log) = level
                      IN  SelectSeq(logs, Same)
          ELSE logs
      Matches(log) ==
        Includes(ToLowerCase(JSONStringify(log)), term)
  IN  IF term # << >> THEN SelectSeq(byLevel, Matches) ELSE byLevel

\* The list filterLogs passes to setFilteredLogs.
filterLogs(term, level) ==
  LET selectedIndex == { i \in 1..Len(levelHierarchy) : levelHierarchy[i] = level }
      byLevel ==
        IF level # sALL
          THEN IF selectedIndex # {}
                 THEN LET allowedLevels ==
                            SubSeq(levelHierarchy, Min(selectedIndex),
                                   Len(levelHierarchy))
                          Allowed(log) == getLogLevel(log) \in Range(allowedLevels)
                      IN  SelectSeq(logs, Allowed)
                 ELSE LET Same(log) == getLogLevel(log) = level
                      IN  SelectSeq(logs, Same)
          ELSE logs
      Matches(log) ==
        Includes(ToLowerCase(JSONStringify(log)), ToLowerCase(term))
  IN  IF term # << >> THEN SelectSeq(byLevel, Matches) ELSE byLevel

\* handleFileUpload without setSelectedLevel('ALL') and setSearchTerm('').
handleFileUpload_keepsFilter(text) ==
  \E res \in { extractJsonObjects(text) } :
      /\ logs' = res.jsonObjects
      /\ filteredLogs' = res.jsonObjects
      /\ stats' = [ignored |-> res.ignoredLines, total |-> Len(res.jsonObjects)]
      /\ availableLevels' = extractLevels(res.jsonObjects)
      /\ content' = text
      /\ lastEvent' = "upload"
      /\ UNCHANGED <<selectedLevel, searchTerm>>

\* The continuation of handleFileUpload once file.text() has resolved to text.
handleFileUpload(text) ==
  \E res \in { extractJsonObjects(text) } :
      /\ logs' = res.jsonObjects
      /\ filteredLogs' = res.jsonObjects
      /\ stats' = [ignored |-> res.ignoredLines, total |-> Len(res.jsonObjects)]
      /\ availableLevels' = extractLevels(res.jsonObjects)
      /\ selectedLevel' = sALL
      /\ searchTerm' = << >>
      /\ content' = text
      /\ lastEvent' = "upload"

\* The search box is rendered only while logs is not empty.
handleSearch(term) ==
  /\ Len(logs) # 0
  /\ searchTerm' = term
  /\ filteredLogs' = filterLogs(term, selectedLevel)
  /\ lastEvent' = "search"
  /\ UNCHANGED <<logs, selectedLevel, availableLevels, stats, content>>

\* handleLevelFilter filtering by the level of the last render.
handleLevelFilter_staleLevel(level) ==
  /\ Len(logs) # 0
  /\ Len(availableLevels) > 1
  /\ level \in Range(availableLevels)
  /\ selectedLevel' = level
  /\ filteredLogs' = filterLogs(searchTerm, selectedLevel)
  /\ lastEvent' = "level"
  /\ UNCHANGED <<logs, searchTerm, availableLevels, stats, content>>

\* The level selector is rendered only while logs is not empty and the
\* catalog has more than one entry; its options are the catalog's entries.
handleLevelFilter(level) ==
  /\ Len(logs) # 0
  /\ Len(availableLevels) > 1
  /\ level \in Range(availableLevels)
  /\ selectedLevel' = level
  /\ filteredLogs' = filterLogs(searchTerm, level)
  /\ lastEvent' = "level"
  /\ UNCHANGED <<logs, searchTerm, availableLevels, stats, content>>

Init ==
  /\ logs = << >>
  /\ filteredLogs = << >>
  /\ searchTerm = << >>
  /\ selectedLevel = sALL
  /\ availableLevels = << >>
  /\ stats = [ignored |-> 0, total |-> 0]
  /\ content = << >>
  /\ lastEvent = "init"

(***************************************************************************)
(* Inputs.                                                                 *)
(***************************************************************************)

MaxFileLines == 2

MaxLines == 3

MaxRecords == 2

\* The lines joined by line feeds.
RECURSIVE JoinLines(_)
JoinLines(ls) ==
  IF Len(ls) = 1 THEN ls[1]
  ELSE ls[1] \o << "\n" >> \o JoinLines(Tail(ls))

TextsOf(lineSet, maxLen) ==
  { JoinLines(ls) : ls \in UNION { [1..n -> lineSet] : n \in 1..maxLen } }

sSUCCESS == << "S", "U", "C", "C", "E", "S", "S" >>

\* Lines of the files loaded in Spec: records of three hierarchy levels and
\* of a custom level (under the four field names, in differing letter case),
\* a record without a level and a line that is not JSON.
UILines ==
  { JSONStringify(Obj(<< Member(kLogLevel, Str(<< "d", "e", "b", "u", "g" >>)) >>)),
    JSONStringify(Obj(<< Member(kLevel, Str(sWARN)), Member(<< "n" >>, Num(1)) >>)),
    JSONStringify(Obj(<< Member(kSeverity, Str(<< "E", "r", "r", "o", "r" >>)) >>)),
    JSONStringify(Obj(<< Member(kLog_level, Str(<< "s", "u", "c", "c", "e", "s", "s" >>)) >>)),
    JSONStringify(Obj(<< Member(<< "d", "a", "t", "a" >>,
                                Obj(<< Member(<< "x" >>, Str(<< "B", "o", "o", "m" >>)) >>)) >>)),
    << "x" >> }

Files == TextsOf(UILines, MaxFileLines)

\* Search terms: none, a nested value in another letter case, and a field
\* name in another letter case with its numeric literal.
SearchTerms ==
  { << >>, << "b", "o", "o", "m" >>, << "N", "\"", ":", "1" >> }

\* Lines of the texts loaded in SpecLoad: blank, white space only, the three
\* lines of a pretty-printed object, the empty object, an object between
\* white space, two malformed candidates and a line that is not JSON.
TextLines ==
  { << >>,
    << " ", "\r" >>,
    << "{" >>,
    << "\"", "a", "\"", ":", "1" >>,
    << "}" >>,
    << "{", "}" >>,
    << " ", "{", "\"", "a", "\"", ":", "1", "}", "\r" >>,
    << "{", "b", "}" >>,
    << "{", "}", "{", "}" >>,
    << "x" >> }

\* The values a level field takes in the records of SpecLoad.
FieldValues(name, num) ==
  { Undefined, Str(name), Str(<< >>), Num(0), Num(num), Bool(FALSE),
    Bool(TRUE), Null }

\* One record for every assignment of those values to the four level fields
\* (Undefined: the field is absent).
RecordOf(a, b, c, d) ==
  Obj(SelectSeq(<< Member(kLevel, a), Member(kSeverity, b),
                   Member(kLog_level, c), Member(kLogLevel, d) >>,
                LAMBDA mem : TagOf(ValueOf(mem)) # "undefined"))

LevelRecords ==
  { RecordOf(a, b, c, d) :
      a \in FieldValues(<< "i", "n", "f", "o" >>, 1),
      b \in FieldValues(<< "w", "a", "r", "n" >>, 2),
      c \in FieldValues(<< "e", "r", "r", "o", "r" >>, 3),
      d \in FieldValues(<< "f", "a", "t", "a", "l" >>, 4) }

\* Records of the multi-record files of SpecLoad.
CatalogRecords ==
  { Obj(<< >>),
    Obj(<< Member(kLevel, Str(<< "a", "l", "l" >>)) >>),
    Obj(<< Member(kLevel, Str(<< "i", "n", "f", "o" >>)) >>),
    Obj(<< Member(kSeverity, Str(<< "I", "n", "f", "o" >>)) >>),
    Obj(<< Member(kLevel, Str(<< "s", "u", "c", "c", "e", "s", "s" >>)) >>),
    Obj(<< Member(kLevel, Num(0)), Member(kSeverity, Str(sWARN)) >>) }

LoadTexts ==
  TextsOf(TextLines, MaxLines)
    \cup { JSONStringify(r) : r \in LevelRecords }
    \cup TextsOf({ JSONStringify(r) : r \in CatalogRecords }, MaxRecords)

(***************************************************************************)
(* Specifications.                                                         *)
(***************************************************************************)

Next ==
  \/ \E text \in Files : handleFileUpload(text)
  \/ \E term \in SearchTerms : handleSearch(term)
  \/ \E level \in Range(availableLevels) : handleLevelFilter(level)

Spec == Init /\ [][Next]_vars

\* One load of one text into the freshly mounted component.
NextLoad == lastEvent = "init" /\ \E text \in LoadTexts : handleFileUpload(text)

SpecLoad == Init /\ [][NextLoad]_vars

(***************************************************************************)
(* Properties.                                                             *)
(***************************************************************************)

\* The lines of the text last loaded, trimmed.
TrimmedLines ==
  LET ls == Split(content) IN [i \in 1..Len(ls) |-> Trim(ls[i])]

NonBlankLines == { i \in DOMAIN TrimmedLines : TrimmedLines[i] # << >> }

ParsingLines ==
  { i \in NonBlankLines :
      /\ StartsWith(TrimmedLines[i], "{")
      /\ EndsWith(TrimmedLines[i], "}")
      /\ Ok(JSONParse(TrimmedLines[i])) }

\* The k-th smallest element of a set of numbers.
NthOf(S, k) == CHOOSE i \in S : Cardinality({ j \in S : j < i }) = k - 1

\* C1: after a load, the records and the ignored lines partition the
\* non-blank lines of the text: the records are the parsed values of the
\* candidate lines that parse, in line order, every other non-blank line is
\* counted once in ignoredLines, and blank lines are counted nowhere.
C1_Partition ==
  lastEvent = "upload" =>
    /\ Len(logs) + stats.ignored = Cardinality(NonBlankLines)
    /\ Len(logs) = Cardinality(ParsingLines)
    /\ \A k \in 1..Len(logs) :
         logs[k] = Val(JSONParse(TrimmedLines[NthOf(ParsingLines, k)]))
    /\ stats.ignored = Cardinality(NonBlankLines \ ParsingLines)

\* A three-line text with a record, an ignored line and a blank line.
C1_Witness ==
  /\ lastEvent = "upload"
  /\ Len(TrimmedLines) = 3
  /\ Len(logs) = 1
  /\ stats.ignored = 1

\* The three physical lines of a pretty-printed {"a":1}.
PrettyPrinted == << "{", "\n", "\"", "a", "\"", ":", "1", "\n", "}" >>

\* C2 as stated: the pretty-printed object yields no record and two ignored
\* lines.
C2_TwoIgnored ==
  (lastEvent = "upload" /\ content = PrettyPrinted) =>
    (Len(logs) = 0 /\ stats.ignored = 2)

\* C2 amended: the pretty-printed object is never merged; it yields no record
\* and three ignored lines, one for each of its physical lines.
C2_ThreeIgnored ==
  (lastEvent = "upload" /\ content = PrettyPrinted) =>
    (Len(logs) = 0 /\ stats.ignored = 3)

C2_Witness == lastEvent = "upload" /\ content = PrettyPrinted

\* C3: the catalog starts with "ALL" and holds no label twice.
C3_NoDuplicates ==
  lastEvent = "upload" =>
    /\ availableLevels[1] = sALL
    /\ \A i, j \in 1..Len(availableLevels) :
         i # j => availableLevels[i] # availableLevels[j]

\* C4: the labels of the catalog after the prepended "ALL" are exactly the
\* labels getLogLevel reports for the records.
C4_CatalogIsResolved ==
  lastEvent = "upload" =>
    Range(Tail(availableLevels))
      = { getLogLevel(logs[i]) : i \in 1..Len(logs) }

LevelFields == << kLevel, kSeverity, kLog_level, kLogLevel >>

\* The field is present in the record.
Present(log, field) ==
  \E i \in 1..Len(MembersOf(log)) : KeyOf(MembersOf(log)[i]) = field

\* A string other than the empty string, a number or a boolean.
NonEmptyScalar(v) ==
  \/ TagOf(v) = "str" /\ TextOf(v) # << >>
  \/ TagOf(v) \in { "num", "bool" }

\* The level fields of the record holding such a value, by priority.
Qualifying(log) ==
  { i \in 1..Len(LevelFields) :
      Present(log, LevelFields[i]) /\ NonEmptyScalar(Get(log, LevelFields[i])) }

\* C5: getLogLevel returns the upper-cased text of the first level field, by
\* priority, present with a non-empty string, number or boolean value, and
\* "UNKNOWN" when none of the four fields is present.
C5_FirstNonEmpty ==
  lastEvent = "upload" =>
    \A k \in 1..Len(logs) :
      /\ Qualifying(logs[k]) # {} =>
           getLogLevel(logs[k])
             = ToUpperCase(toString(Get(logs[k],
                                        LevelFields[Min(Qualifying(logs[k]))])))
      /\ (\A i \in 1..Len(LevelFields) : ~Present(logs[k], LevelFields[i])) =>
           getLogLevel(logs[k]) = sUNKNOWN

\* Position of a label in the hierarchy; 0 for a label outside it.
HierarchyPosition(label) ==
  IF \E i \in 1..Len(levelHierarchy) : levelHierarchy[i] = label
    THEN CHOOSE i \in 1..Len(levelHierarchy) : levelHierarchy[i] = label
    ELSE 0

\* C6: with an empty search term, a selected hierarchy level is a floor: the
\* displayed list is the records whose label is in the hierarchy at or after
\* the selected position, in the original order; "ALL" displays every record.
C6_SeverityFloor ==
  searchTerm = << >> =>
    /\ selectedLevel = sALL => filteredLogs = logs
    /\ HierarchyPosition(selectedLevel) # 0 =>
         filteredLogs
           = SelectSeq(logs,
                       LAMBDA log :
                         /\ HierarchyPosition(getLogLevel(log)) # 0
                         /\ HierarchyPosition(getLogLevel(log))
                              >= HierarchyPosition(selectedLevel))

\* WARN is selected; one of two records is below the floor.
C6_Witness ==
  /\ searchTerm = << >>
  /\ selectedLevel = sWARN
  /\ Len(logs) = 2
  /\ Len(filteredLogs) = 1
  /\ getLogLevel(logs[1]) = sDEBUG

\* C7: with an empty search term, a selected level outside the hierarchy
\* (other than "ALL") displays exactly the records with that label, none of
\* which carries a hierarchy label.
C7_ExactMatch ==
  (searchTerm = << >> /\ selectedLevel # sALL
     /\ HierarchyPosition(selectedLevel) = 0) =>
    /\ filteredLogs = SelectSeq(logs, LAMBDA log : getLogLevel(log) = selectedLevel)
    /\ \A k \in 1..Len(filteredLogs) :
         HierarchyPosition(getLogLevel(filteredLogs[k])) = 0

\* SUCCESS is selected; the other record carries a hierarchy label.
C7_Witness ==
  /\ searchTerm = << >>
  /\ selectedLevel = sSUCCESS
  /\ Len(logs) = 2
  /\ Len(filteredLogs) = 1
  /\ \E k \in 1..2 : HierarchyPosition(getLogLevel(logs[k])) # 0

LevelPasses(log) ==
  \/ selectedLevel = sALL
  \/ /\ HierarchyPosition(selectedLevel) # 0
     /\ HierarchyPosition(getLogLevel(log)) >= HierarchyPosition(selectedLevel)
  \/ /\ selectedLevel # sALL
     /\ HierarchyPosition(selectedLevel) = 0
     /\ getLogLevel(log) = selectedLevel

\* The term occurs in the serialization of the record, letter case ignored.
SearchPasses(log) ==
  \/ searchTerm = << >>
  \/ LET text == JSONStringify(log)
     IN  \E off \in 0..(Len(text) - Len(searchTerm)) :
           \A k \in 1..Len(searchTerm) :
             LowerChar(text[off + k]) = LowerChar(searchTerm[k])

\* C8: the displayed list is the records that pass both the level predicate
\* and the search predicate; an empty term passes every record, any other
\* term passes the records whose lower-cased serialization contains the
\* lower-cased term.
C8_SearchAndLevel ==
  filteredLogs = SelectSeq(logs, LAMBDA log : LevelPasses(log) /\ SearchPasses(log))

\* A term with an upper-case letter matches a field name and number of one
\* record, not of the other; both records pass the selected level.
C8_Witness ==
  /\ searchTerm = << "N", "\"", ":", "1" >>
  /\ selectedLevel # sALL
  /\ Len(logs) = 2
  /\ Len(filteredLogs) = 1

\* C9: after any sequence of loads, searches and level changes the displayed
\* list is the filter of the complete record set by the current search term
\* and level, and the record set is still the complete list of records of
\* the text last loaded.
C9_Recomputed ==
  /\ filteredLogs = filterLogs(searchTerm, selectedLevel)
  /\ logs = extractJsonObjects(content).jsonObjects

\* The level was relaxed to "ALL" after a search whose term matches every
\* record: both records are displayed again.
C9_Witness ==
  /\ lastEvent = "level"
  /\ selectedLevel = sALL
  /\ searchTerm # << >>
  /\ Len(logs) = 2
  /\ filteredLogs = logs

\* C10: after a load the state holds the records of the loaded text only and
\* the filter is reset.
C10_LoadReplaces ==
  lastEvent = "upload" =>
    /\ logs = extractJsonObjects(content).jsonObjects
    /\ filteredLogs = logs
    /\ stats.total = Len(logs)
    /\ stats.ignored = extractJsonObjects(content).ignoredLines
    /\ availableLevels = extractLevels(logs)
    /\ searchTerm = << >>
    /\ selectedLevel = sALL

C10_Witness ==
  /\ lastEvent = "upload"
  /\ stats.total = 1
  /\ stats.ignored = 1

====
